---- MODULE Spec2Model ----
(***************************************************************************)
(* Model of the wengine coordination core (src/src/lib.rs):                *)
(*   - Timer            : the frame pacer                                  *)
(*   - main::EngineMain : the controller, on the main thread               *)
(*   - worker::EngineWorker : the worker, inside the web worker            *)
(* The two contexts are single-threaded event loops joined by the          *)
(* postMessage transport, which is FIFO per direction.                      *)
(***************************************************************************)
EXTENDS Integers, Sequences, FiniteSets, TLC

(* ------------------------------ bounds --------------------------------- *)
\* performance.now() is an f64 of milliseconds with a fractional part: the
\* clock is counted in ticks, TicksPerMs of them to the millisecond
TicksPerMs == 2
\* last clock value (ticks) the model lets performance.now() reach
MaxNow == 3
\* number of calls the two owners make in all: send_event, post_message,
\* EngineWorker::new, and dropping the inbound stream
MaxOps == 3

\* largest frame rate handed to Timer::new when only Timer::new is run
MaxRate == 2002
\* last clock value (ticks) reached when the Timer is driven directly
MaxClock == 6
\* number of items the stream handed to FrameTimer::new yields
MaxItems == 2

(* --------------------------- value domains ----------------------------- *)
\* JsValue::null()
Null == "null"
\* application values; "x" is a value of the sender's type that the
\* receiver's type cannot represent (the two sides pick T and K separately),
\* "n" a value whose JSON text is `null` (None, the unit value)
Values == {"a", "b", "x", "n"}
\* values for which the receiver's Deserialize impl succeeds
Decodable == {"a", "b"}

\* JsValue::from_serde: the JS value the JSON text of a value parses to; the
\* text `null` parses to JsValue::null()
FromSerde(v) == CASE v = "a" -> "ja" [] v = "b" -> "jb" [] v = "n" -> Null [] OTHER -> "jx"
\* JsValue::into_serde: Ok(value) for the JSON text of a value of the
\* receiver's type, Err otherwise
IntoSerde(j) ==
    IF \E v \in Decodable : FromSerde(v) = j
    THEN [ok |-> TRUE, val |-> CHOOSE v \in Decodable : FromSerde(v) = j]
    ELSE [ok |-> FALSE, val |-> Null]

\* js_sys::Array of two slots, data.get(0) and data.get(1)
Envelope(s0, s1) == [m |-> s0, k |-> s1]

VARIABLES
    now,          \* performance.now(), in ticks
    toWorker,     \* envelopes posted by the controller, not yet dispatched
    toMain,       \* envelopes posted by the worker, not yet dispatched
    \* ---- controller (EngineMain) ----
    mPc,          \* position of the owner of EngineMain
    mHandle,      \* _handle: the "message" listener is installed
    mFs,          \* fs: Some(sender) of the ready one-shot
    mFr,          \* ready one-shot: "pending" or "sent"
    mShutdownFs,  \* shutdown_fs: Some(sender) of the close one-shot
    mShutdownFr,  \* close one-shot: "pending" or "sent"
    mCanvas,      \* the controller holds a valid OffscreenCanvas handle
    mKrAlive,     \* the owner still holds the UnboundedReceiver kr
    mStream,      \* items sent into ks and not yet taken
    mFatal,       \* an unwrap_throw fired in the controller context
    \* ---- worker (EngineWorker) ----
    wPc,          \* position of the worker's task
    wHandle,      \* _handle: the "message" listener is installed
    wFs,          \* fs: Some(sender) of the surface one-shot
    wFr,          \* surface one-shot: "pending" or "sent"
    wCanvas,      \* canvas: Some(OffscreenCanvas)
    queue,        \* queue: events pushed by the listener
    buffer,       \* buffer: events last handed out by next()
    timer,        \* timer: [last, frame_rate]
    sleep,        \* Timer::next in flight: [tt, wake]
    wTime,        \* the `time` argument of EngineWorker::new
    wFatal,       \* an unwrap_throw / assert fired in the worker context
    \* ---- a Timer driven directly by its owner ----
    tPc,          \* position of the owner of the Timer
    tRate,        \* the frame_rate argument of Timer::new
    obs,          \* what the owner's stopwatch observed
    \* ---- a FrameTimer (its timer field is `timer`) ----
    fPc,          \* position of the owner of the FrameTimer
    fBuffer,      \* buffer: items taken from the stream
    fStream,      \* stream: items it has ready, None ("null") once exhausted
    fObs,         \* what the owner of the FrameTimer observed
    \* ---- history (observations only) ----
    hist

mainVars   == <<mPc, mHandle, mFs, mFr, mShutdownFs, mShutdownFr, mCanvas,
                mKrAlive, mStream, mFatal>>
workerVars == <<wPc, wHandle, wFs, wFr, wCanvas, queue, buffer, timer, sleep,
                wTime, wFatal>>
workerRest == <<wPc, wHandle, wFs, wFr, wCanvas, queue, buffer, wTime, wFatal>>
frameVars  == <<fPc, fBuffer, fStream, fObs>>
pacerVars  == <<tPc, tRate, obs, frameVars>>
vars == <<now, toWorker, toMain, mainVars, workerVars, pacerVars, hist>>

(* ------------------------------- Timer --------------------------------- *)
\* f64 arithmetic of Timer::new. A positive f64 is [m, e]: m its 53
\* significand bits, most significant (always 1) first, and the value is
\* 0.m * 2^e. Results are rounded to nearest, ties to even, as IEEE 754 does.
MantBits == 53

\* 2^i modulo d, for i <= 2 * 27 (the factors stay below 2^31)
Pow2Mod(i, d) == ((2 ^ (i \div 2) % d) * (2 ^ (i - i \div 2) % d)) % d

\* long division of r / d (r < d): the remainder left after i quotient bits
DivRem(r, d, i) == (r * Pow2Mod(i, d)) % d

\* long division of r / d (r < d): quotient bit i, counted from 1
DivBit(r, d, i) == IF 2 * DivRem(r, d, i - 1) >= d THEN 1 ELSE 0

RECURSIVE CeilLog2(_, _)
\* the least s >= s0 with 2^s >= n
CeilLog2(n, s0) == IF 2 ^ s0 >= n THEN s0 ELSE CeilLog2(n, s0 + 1)

\* b + 1 on a fixed width: the bits after the last 0 flip, and so does it
IncBits(b) ==
    LET z == {i \in 1..Len(b) : b[i] = 0}
        last0 == IF z = {} THEN 0 ELSE CHOOSE i \in z : \A j \in z : j <= i
    IN  [i \in 1..Len(b) |-> IF i < last0 THEN b[i] ELSE 1 - b[i]]

\* round-to-nearest-even of 0.bits * 2^e, where bits holds MantBits bits and
\* what follows them starts with bit g and is otherwise zero iff ~sticky
F64Nearest(bits, e, g, sticky) ==
    LET up == g = 1 /\ (sticky \/ bits[MantBits] = 1)
    IN  IF ~up THEN [m |-> bits, e |-> e]
        ELSE IF \A i \in 1..MantBits : bits[i] = 1
             THEN [m |-> [i \in 1..MantBits |-> IF i = 1 THEN 1 ELSE 0], e |-> e + 1]
        ELSE [m |-> IncBits(bits), e |-> e]

\* 1.0 / n for an integer n >= 1: 1/n = (2^s / 2n) * 2^(1-s), with the
\* fraction in [1/2, 1)
F64Recip(n) ==
    LET s == CeilLog2(n, 0)
        r == 2 ^ s
        d == 2 * n
    IN  F64Nearest([i \in 1..MantBits |-> DivBit(r, d, i)], 1 - s,
                   DivBit(r, d, MantBits + 1), DivRem(r, d, MantBits + 1) # 0)

\* the number of bits of a small integer k >= 1
BitLen(k) == CeilLog2(k + 1, 0)

\* x * k for a small integer k >= 1 (k is exact as an f64): the product of
\* the significand by k, schoolbook from the last bit, then rounded
F64MulInt(x, k) ==
    LET w == MantBits
        m == x.m
        \* carry[i]: what bits i+1..w pass on to bit i
        carry[i \in 0..w] == IF i = w THEN 0 ELSE (m[i + 1] * k + carry[i + 1]) \div 2
        low == [i \in 1..w |-> (m[i] * k + carry[i]) % 2]
        top == carry[0]
        n   == BitLen(top)
        p   == [i \in 1..(n + w) |->
                  IF i <= n THEN (top \div 2 ^ (n - i)) % 2 ELSE low[i - n]]
    IN  IF n = 0 THEN [m |-> low, e |-> x.e]
        ELSE F64Nearest([i \in 1..w |-> p[i]], x.e + n, p[w + 1],
                        \E i \in (w + 2)..(n + w) : p[i] = 1)

\* the number the first n bits of b spell, n small
BitsValue(b, n) ==
    LET v[i \in 0..n] == IF i = 0 THEN 0 ELSE 2 * v[i - 1] + b[i]
    IN  v[n]

\* mutant of F64Round: the cast alone, which truncates
F64Round_Truncates(x) ==
    IF x.e <= 0 THEN 0 ELSE BitsValue(x.m, x.e)

\* f64::round then `as usize`: the nearest integer, a tie going away from zero
F64Round(x) ==
    IF x.e < 0 THEN 0
    ELSE IF x.e = 0 THEN 1
    ELSE LET m == x.m IN BitsValue(m, x.e) + m[x.e + 1]

\* Timer::new, `((1.0 / frame_rate as f64) * 1000.0).round() as usize`
\* (each intermediate f64 is bound to its value once)
RoundPeriod(rate) ==
    CHOOSE p \in {F64Round(y) : y \in {F64MulInt(x, 1000) : x \in {F64Recip(rate)}}} : TRUE

\* frame rates handed to EngineWorker::new by the worker's owner
EngineRates == {1000, 2001}

\* frame rates handed to Timer::new when the Timer is driven directly
\* (periods 1, 2 and 3 ms)
PacerRates == {1000, 500, 333}

\* the periods of the rates above, computed once
KnownPeriods == [r \in EngineRates \cup PacerRates |-> RoundPeriod(r)]

\* Timer::new, the shadowed `frame_rate`: the period in milliseconds
TimerPeriod(frame_rate) ==
    IF frame_rate \in DOMAIN KnownPeriods THEN KnownPeriods[frame_rate]
    ELSE RoundPeriod(frame_rate)

\* Timer::new: the struct it builds at clock value t
TimerNew(frame_rate, t) == [last |-> t, frame_rate |-> TimerPeriod(frame_rate)]

\* Timer::new, `assert!(frame_rate > 0)` on the period
TimerAssert(tm) == tm.frame_rate > 0

\* Timer::next, `diff`, in ticks
TimerDiff(tm, t) == t - tm.last

\* Timer::next, the test guarding the TimeoutFuture:
\* `self.frame_rate as f64 - diff > 0.0`
TimerSuspends(tm, t) == tm.frame_rate * TicksPerMs - TimerDiff(tm, t) > 0

\* mutant of TimerDelay: the remaining time is rounded up to whole
\* milliseconds
TimerDelay_RoundsUp(tm, t) ==
    (tm.frame_rate * TicksPerMs - TimerDiff(tm, t) + TicksPerMs - 1) \div TicksPerMs

\* Timer::next, `d`, in whole milliseconds: the cast to usize truncates
\* toward zero (taken only when the difference is positive)
TimerDelay(tm, t) == (tm.frame_rate * TicksPerMs - TimerDiff(tm, t)) \div TicksPerMs

\* TimeoutFuture::new(d): the clock value at which the timeout is due
TimeoutDue(t, d) == t + d * TicksPerMs

\* Timer::next, `self.last = tt`, with tt read on entry
TimerStamp(tm, tt, tEnd) == [tm EXCEPT !.last = tt]

\* the timer field before a Timer is constructed
NoTimer == [last |-> 0, frame_rate |-> 0]
\* no TimeoutFuture is pending
NoSleep == [tt |-> 0, wake |-> 0]

(* ------------------- a Timer driven directly by its owner -------------- *)
\* The owner holds a stopwatch: obs notes when each Timer::next was entered
\* and when it returned.
InitObs ==
    [ returns  |-> 0,      \* Timer::next calls that have returned
      entered  |-> 0,      \* clock value on entry to the latest call
      lastRet  |-> 0,      \* clock value at the latest return (at first: at Timer::new)
      gap      |-> 0,      \* time between the two latest returns
      work     |-> 0,      \* time between the previous return and the latest entry
      maxWork  |-> 0,      \* the largest such time so far
      elapsed  |-> 0,      \* now - last on entry to the latest call
      slept    |-> 0,      \* time the latest call spent suspended
      stamps   |-> 0,      \* assignments to self.last
      calls    |-> 0 ]     \* Timer::next calls entered

engineVars == <<toWorker, toMain, mainVars, workerRest, hist>>

\* Timer::new(rate)
TimerCreate(rate) ==
    /\ tPc = "none"
    /\ tRate' = rate
    /\ \E tm \in {TimerNew(rate, now)} :
         /\ timer' = tm
         /\ tPc' = IF TimerAssert(tm) THEN "idle" ELSE "failed"
    /\ obs' = [obs EXCEPT !.lastRet = now]
    /\ UNCHANGED <<now, sleep, frameVars, engineVars>>

\* the stopwatch at the return of Timer::next
ObsReturn(o, t) ==
    [o EXCEPT !.returns = @ + 1, !.gap = t - o.lastRet, !.lastRet = t,
              !.slept = t - o.entered, !.stamps = @ + 1]

\* the stopwatch on entry to Timer::next
ObsEnter(o, tm, t) ==
    [o EXCEPT !.calls = @ + 1, !.entered = t, !.work = t - o.lastRet,
              !.maxWork = IF t - o.lastRet > @ THEN t - o.lastRet ELSE @,
              !.elapsed = t - tm.last]

\* Timer::next up to the TimeoutFuture, or to its return when nothing is left
\* to wait for
TimerCall ==
    /\ tPc = "idle"
    /\ IF TimerSuspends(timer, now)
       THEN /\ sleep' = [tt |-> now, wake |-> TimeoutDue(now, TimerDelay(timer, now))]
            /\ tPc' = "sleeping"
            /\ obs' = ObsEnter(obs, timer, now)
            /\ UNCHANGED timer
       ELSE /\ timer' = TimerStamp(timer, now, now)
            /\ obs' = ObsReturn(ObsEnter(obs, timer, now), now)
            /\ UNCHANGED <<sleep, tPc>>
    /\ UNCHANGED <<now, tRate, frameVars, engineVars>>

\* the TimeoutFuture completes, at its due time or later
TimerWake ==
    /\ tPc = "sleeping"
    /\ now >= sleep.wake
    /\ timer' = TimerStamp(timer, sleep.tt, now)
    /\ sleep' = NoSleep
    /\ tPc' = "idle"
    /\ obs' = ObsReturn(obs, now)
    /\ UNCHANGED <<now, tRate, frameVars, engineVars>>

\* performance.now() advances
TimerTick ==
    /\ tPc \in {"idle", "sleeping"}
    /\ now < MaxClock
    /\ now' = now + 1
    /\ UNCHANGED <<timer, sleep, pacerVars, engineVars>>

(* ------------------------------ FrameTimer ----------------------------- *)
\* items the stream yields
FrameItems == {"a", "b"}

\* what the owner of the FrameTimer, and an observer of its stream, note
InitFrameObs ==
    [ yielded   |-> 0,       \* items the stream has made ready so far
      taken     |-> <<>>,    \* items FrameTimer::next took from the stream, in order
      returns   |-> 0,       \* FrameTimer::next calls that have returned
      slice     |-> <<>>,    \* the slice the latest call returned
      prevSlice |-> <<>>,    \* the slice the call before it returned
      abandoned |-> 0 ]      \* Timer::next futures dropped at their await

\* FrameTimer::new(frame_rate, stream)
FrameTimerNew(rate) ==
    /\ fPc = "none"
    /\ \E tm \in {TimerNew(rate, now)} :
         /\ timer' = tm
         /\ fPc' = IF TimerAssert(tm) THEN "idle" ELSE "failed"
    /\ fBuffer' = <<>>
    /\ UNCHANGED <<now, sleep, fStream, fObs, tPc, tRate, obs, engineVars>>

\* the stream gets an item ready, or (None) comes to its end
StreamYield(item) ==
    /\ fPc \notin {"none", "failed"}
    /\ fObs.yielded < MaxItems
    /\ (IF fStream = <<>> THEN TRUE ELSE fStream[Len(fStream)] # Null)
    /\ fStream' = Append(fStream, item)
    /\ fObs' = [fObs EXCEPT !.yielded = @ + 1]
    /\ UNCHANGED <<now, timer, sleep, fPc, fBuffer, tPc, tRate, obs, engineVars>>

\* mutant of FrameNextCall: the buffer is cleared on entry, as
\* EngineWorker::next does
FrameNextCall_Clears ==
    /\ fPc = "idle"
    /\ fPc' = "loop"
    /\ fBuffer' = <<>>
    /\ UNCHANGED <<now, timer, sleep, fStream, fObs, tPc, tRate, obs, engineVars>>

\* FrameTimer::next is called: it goes straight into its loop
FrameNextCall ==
    /\ fPc = "idle"
    /\ fPc' = "loop"
    /\ UNCHANGED <<now, timer, sleep, fBuffer, fStream, fObs, tPc, tRate, obs, engineVars>>

\* FrameTimer::next, the timer arm of select_biased completes: Timer::next
\* stores tt, the loop breaks and &self.buffer is returned
FrameBreak(tt) ==
    /\ timer' = TimerStamp(timer, tt, now)
    /\ sleep' = NoSleep
    /\ fPc' = "idle"
    /\ fObs' = [fObs EXCEPT !.returns = @ + 1, !.slice = fBuffer,
                            !.prevSlice = fObs.slice]
    /\ UNCHANGED <<fBuffer, fStream>>

\* FrameTimer::next, the stream arm of select_biased completes with the
\* timer arm pending: the Timer::next future is dropped at its await, the
\* item is pushed (None: unwrap_throw) and the loop goes round
FrameTake ==
    /\ fStream' = Tail(fStream)
    /\ sleep' = NoSleep
    /\ UNCHANGED timer
    /\ IF Head(fStream) = Null
       THEN /\ fPc' = "failed"
            /\ fObs' = [fObs EXCEPT !.abandoned = @ + 1]
            /\ UNCHANGED fBuffer
       ELSE /\ fPc' = "loop"
            /\ fBuffer' = Append(fBuffer, Head(fStream))
            /\ fObs' = [fObs EXCEPT !.abandoned = @ + 1,
                                    !.taken = Append(@, Head(fStream))]

\* FrameTimer::next, one turn of the loop: select_biased polls a fresh
\* Timer::next first, then stream.next(); with both pending the task yields
FramePoll ==
    /\ fPc = "loop"
    /\ IF ~TimerSuspends(timer, now) THEN FrameBreak(now)
       ELSE IF fStream # <<>> THEN FrameTake
       ELSE /\ sleep' = [tt |-> now, wake |-> TimeoutDue(now, TimerDelay(timer, now))]
            /\ fPc' = "select"
            /\ UNCHANGED <<timer, fBuffer, fStream, fObs>>
    /\ UNCHANGED <<now, tPc, tRate, obs, engineVars>>

\* FrameTimer::next is woken by the TimeoutFuture, which has completed: the
\* timer arm is polled first and wins, whatever the stream has ready
FrameWakeTimer ==
    /\ fPc = "select"
    /\ now >= sleep.wake
    /\ FrameBreak(sleep.tt)
    /\ UNCHANGED <<now, tPc, tRate, obs, engineVars>>

\* FrameTimer::next is woken by the stream, the TimeoutFuture not having
\* completed yet
FrameWakeStream ==
    /\ fPc = "select"
    /\ fStream # <<>>
    /\ FrameTake
    /\ UNCHANGED <<now, tPc, tRate, obs, engineVars>>

\* performance.now() advances
FrameTick ==
    /\ fPc \in {"idle", "loop", "select"}
    /\ now < MaxClock
    /\ now' = now + 1
    /\ UNCHANGED <<timer, sleep, pacerVars, engineVars>>

(* ------------------------------ histories ------------------------------ *)
\* hist records what an observer of the transport and of the two APIs sees;
\* no action's guard reads it (the call counters excepted, which bound the
\* owners' calls).
InitHist ==
    [ transfers  |-> 0,        \* transfer envelopes posted by the controller
      readySeen  |-> 0,        \* Ready envelopes dispatched to the controller's listener
      closeSeen  |-> 0,        \* Close envelopes dispatched to the controller's listener
      surfSeen   |-> 0,        \* surface envelopes dispatched to the worker's listener
      session    |-> 0,        \* EngineWorker::new calls so far
      readies    |-> <<>>,     \* per session: Ready envelopes posted
      closes     |-> <<>>,     \* per session: Close envelopes posted
      ended      |-> <<>>,     \* per session: how it terminated ("" while alive)
      delivered  |-> <<>>,     \* this session: events the listener pushed
      returned   |-> <<>>,     \* this session: concatenation of next()'s slices
      sincePrev  |-> 0,        \* pushes since the previous drain
      lastFresh  |-> 0,        \* pushes that preceded the latest drain
      nexts      |-> 0,        \* next() calls returned in this session
      ops        |-> 0,        \* owner calls so far (bounded by MaxOps)
      posted     |-> <<>>,     \* values handed to post_message, in order
      sentAfterClose |-> 0,    \* send_event calls made with Close observed
      canvasCalls |-> 0 ]      \* canvas() calls made

(* ------------------------- controller: EngineMain ---------------------- *)
\* EngineMain::new up to `fr.await`: the Worker is created, the listener is
\* installed, both one-shots and the mpsc channel exist
MainNewStart ==
    /\ mPc = "init"
    /\ mPc' = "await_ready"
    /\ mHandle' = TRUE
    /\ mFs' = TRUE /\ mFr' = "pending"
    /\ mShutdownFs' = TRUE /\ mShutdownFr' = "pending"
    /\ mKrAlive' = TRUE /\ mStream' = <<>>
    /\ UNCHANGED <<pacerVars, mCanvas, mFatal, now, toWorker, toMain, workerVars, hist>>

\* mutant of MainReadyAwaited: the transfer does not wait for Ready
MainReadyAwaited_NoWait == TRUE

\* `fr.await` has completed
MainReadyAwaited == mFr = "sent"

\* mutant of MainNewFinish: the canvas is posted without the transfer list,
\* so the controller's handle stays valid
MainNewFinish_NoTransfer ==
    /\ mPc = "await_ready"
    /\ ~mFatal
    /\ MainReadyAwaited
    /\ toWorker' = Append(toWorker, Envelope("canvas", Null))
    /\ mPc' = "running"
    /\ hist' = [hist EXCEPT !.transfers = @ + 1]
    /\ UNCHANGED <<pacerVars, mCanvas, mHandle, mFs, mFr, mShutdownFs, mShutdownFr,
                   mKrAlive, mStream, mFatal, now, toMain, workerVars>>

\* mutant of MainNewFinish: EngineMain::new returns with the transfer left
\* unsent
MainNewFinish_ReturnsUnsent ==
    /\ mPc = "await_ready"
    /\ ~mFatal
    /\ MainReadyAwaited
    /\ mPc' = "running"
    /\ UNCHANGED <<pacerVars, mCanvas, mHandle, mFs, mFr, mShutdownFs, mShutdownFr,
                   mKrAlive, mStream, mFatal, now, toWorker, toMain, workerVars, hist>>

\* EngineMain::new from `fr.await` to its return: post_message_with_transfer
\* moves the canvas out of the controller
MainNewFinish ==
    /\ mPc = "await_ready"
    /\ ~mFatal
    /\ MainReadyAwaited
    /\ toWorker' = Append(toWorker, Envelope("canvas", Null))
    /\ mCanvas' = FALSE
    /\ mPc' = "running"
    /\ hist' = [hist EXCEPT !.transfers = @ + 1]
    /\ UNCHANGED <<pacerVars, mHandle, mFs, mFr, mShutdownFs, mShutdownFr, mKrAlive,
                   mStream, mFatal, now, toMain, workerVars>>

\* mutant of SendEventFatal: post_message to a closed worker throws
SendEventFatal_ThrowsWhenClosed(closed) == mFatal \/ closed

\* what send_event does to the controller's fatal flag: from_serde and
\* post_message succeed whatever the worker's state is
SendEventFatal(closed) == mFatal

\* EngineMain::send_event
MainSendEvent(val) ==
    /\ mPc = "running"
    /\ ~mFatal
    /\ hist.ops < MaxOps
    /\ toWorker' = Append(toWorker, Envelope(Null, FromSerde(val)))
    /\ mFatal' = SendEventFatal(mShutdownFr = "sent")
    /\ hist' = [hist EXCEPT !.ops = @ + 1,
                            !.sentAfterClose = @ + (IF mShutdownFr = "sent" THEN 1 ELSE 0)]
    /\ UNCHANGED <<pacerVars, mPc, mHandle, mFs, mFr, mShutdownFs, mShutdownFr, mCanvas,
                   mKrAlive, mStream, now, toMain, workerVars>>

\* EngineMain::join is called: `self.shutdown_fr.await` starts
MainJoinCall ==
    /\ mPc = "running"
    /\ ~mFatal
    /\ mPc' = "joining"
    /\ UNCHANGED <<pacerVars, mHandle, mFs, mFr, mShutdownFs, mShutdownFr, mCanvas,
                   mKrAlive, mStream, mFatal, now, toWorker, toMain, workerVars, hist>>

\* EngineMain::join returns; `self` is dropped with its listener
MainJoinReturn ==
    /\ mPc = "joining"
    /\ ~mFatal
    /\ mShutdownFr = "sent"
    /\ mPc' = "joined"
    /\ mHandle' = FALSE
    /\ UNCHANGED <<pacerVars, mFs, mFr, mShutdownFs, mShutdownFr, mCanvas,
                   mKrAlive, mStream, mFatal, now, toWorker, toMain, workerVars, hist>>

\* the owner drops the UnboundedReceiver returned by EngineMain::new
MainDropStream ==
    /\ mPc \in {"running", "joining"}
    /\ ~mFatal
    /\ mKrAlive
    /\ hist.ops < MaxOps
    /\ mKrAlive' = FALSE
    /\ mStream' = <<>>
    /\ hist' = [hist EXCEPT !.ops = @ + 1]
    /\ UNCHANGED <<pacerVars, mPc, mHandle, mFs, mFr, mShutdownFs, mShutdownFr, mCanvas,
                   mFatal, now, toWorker, toMain, workerVars>>

\* the listener closure of EngineMain::new, control slot: the one-shot a tag
\* fulfils is taken out of its Option, so a later tag finds None
MainOnControl(m) ==
    /\ mFs' = IF m = "ready" THEN FALSE ELSE mFs
    /\ mFr' = IF m = "ready" /\ mFs THEN "sent" ELSE mFr
    /\ mShutdownFs' = IF m = "close" THEN FALSE ELSE mShutdownFs
    /\ mShutdownFr' = IF m = "close" /\ mShutdownFs THEN "sent" ELSE mShutdownFr

\* mutant of MainOnThrows: the result of unbounded_send is ignored, so a
\* payload for a dropped receiver is discarded
MainOnThrows_IgnoresSendError(e) ==
    /\ e.k # Null
    /\ ~IntoSerde(e.k).ok

\* the listener closure of EngineMain::new, whether it throws: into_serde
\* fails, or unbounded_send finds the receiver gone
MainOnThrows(e) ==
    /\ e.k # Null
    /\ (~IntoSerde(e.k).ok \/ ~mKrAlive)

\* the listener closure of EngineMain::new, run on the next envelope
MainListener ==
    /\ toMain # <<>>
    /\ mHandle
    /\ ~mFatal
    /\ LET e == Head(toMain) IN
        /\ toMain' = Tail(toMain)
        /\ MainOnControl(e.m)
        /\ mFatal' = MainOnThrows(e)
        /\ mStream' = IF e.k # Null /\ ~MainOnThrows(e)
                      THEN Append(mStream, IntoSerde(e.k).val) ELSE mStream
        /\ hist' = [hist EXCEPT
                      !.readySeen = @ + (IF e.m = "ready" THEN 1 ELSE 0),
                      !.closeSeen = @ + (IF e.m = "close" THEN 1 ELSE 0)]
    /\ UNCHANGED <<pacerVars, mPc, mHandle, mCanvas, mKrAlive, now, toWorker, workerVars>>

\* a message event dispatched at the Worker object after the listener is gone
MainNoListener ==
    /\ toMain # <<>>
    /\ ~mHandle
    /\ mPc # "init"
    /\ toMain' = Tail(toMain)
    /\ UNCHANGED <<pacerVars, mainVars, now, toWorker, workerVars, hist>>

(* -------------------------- worker: EngineWorker ----------------------- *)
\* mutant of WorkerYielded: message dispatch runs in parallel with the task
WorkerYielded_Parallel == TRUE

\* the worker's task is at an await (or has returned to the event loop), so
\* the event loop may run a listener callback; "clear" and "append" are the
\* two statements of EngineWorker::next after the timer await, which run
\* without yielding
WorkerYielded == wPc \notin {"clear", "append"}

\* mutant of ReadyEnvelopes: Ready is posted before and after the listener
\* is installed
ReadyEnvelopes_Twice == <<Envelope("ready", Null), Envelope("ready", Null)>>

\* EngineWorker::new: the envelopes it posts before `fr.await`
ReadyEnvelopes == <<Envelope("ready", Null)>>

\* EngineWorker::new up to `fr.await`: fresh queue, canvas cell and one-shot,
\* listener installed, Ready posted
WorkerNewStart(time) ==
    /\ wPc \in {"start", "ended"}
    /\ mPc # "init"
    /\ ~wFatal
    /\ hist.ops < MaxOps
    /\ wPc' = "await_surface"
    /\ wTime' = time
    /\ wHandle' = TRUE
    /\ wFs' = TRUE /\ wFr' = "pending"
    /\ wCanvas' = FALSE
    /\ queue' = <<>>
    /\ toMain' = toMain \o ReadyEnvelopes
    /\ hist' = [hist EXCEPT !.ops = @ + 1, !.session = @ + 1,
                            !.readies = Append(@, Len(ReadyEnvelopes)),
                            !.closes = Append(@, 0),
                            !.ended = Append(@, ""),
                            !.delivered = <<>>, !.returned = <<>>,
                            !.sincePrev = 0, !.lastFresh = 0, !.nexts = 0]
    /\ UNCHANGED <<pacerVars, buffer, timer, sleep, wFatal, now, toWorker, mainVars>>

\* mutant of WorkerSurfaceAwaited: EngineWorker::new does not wait for the
\* surface
WorkerSurfaceAwaited_NoWait == TRUE

\* `fr.await` of EngineWorker::new has completed
WorkerSurfaceAwaited == wFr = "sent"

\* EngineWorker::new from `fr.await` to its return; Timer::new asserts
WorkerNewFinish ==
    /\ wPc = "await_surface"
    /\ ~wFatal
    /\ WorkerSurfaceAwaited
    /\ \E tm \in {TimerNew(wTime, now)} :
       IF TimerAssert(tm)
       THEN /\ timer' = tm
            /\ buffer' = <<>>
            /\ wPc' = "idle"
            /\ UNCHANGED wFatal
       ELSE /\ wFatal' = TRUE
            /\ UNCHANGED <<timer, buffer, wPc>>
    /\ UNCHANGED <<pacerVars, wHandle, wFs, wFr, wCanvas, queue, sleep, wTime,
                   now, toWorker, toMain, mainVars, hist>>

\* mutant of WorkerAbandonNew: dropping the future of EngineWorker::new
\* posts Close
WorkerAbandonNew_PostsClose ==
    /\ wPc = "await_surface"
    /\ ~wFatal
    /\ wPc' = "ended"
    /\ wHandle' = FALSE
    /\ wCanvas' = FALSE
    /\ queue' = <<>>
    /\ toMain' = Append(toMain, Envelope("close", Null))
    /\ hist' = [hist EXCEPT !.ended[hist.session] = "abandoned",
                            !.closes[hist.session] = @ + 1]
    /\ UNCHANGED <<pacerVars, wFs, wFr, buffer, timer, sleep, wTime, wFatal,
                   now, toWorker, mainVars>>

\* the future of EngineWorker::new is dropped at `fr.await`: its locals
\* (listener, queue, canvas cell) go, and no EngineWorker exists to be dropped
WorkerAbandonNew ==
    /\ wPc = "await_surface"
    /\ ~wFatal
    /\ wPc' = "ended"
    /\ wHandle' = FALSE
    /\ wCanvas' = FALSE
    /\ queue' = <<>>
    /\ hist' = [hist EXCEPT !.ended[hist.session] = "abandoned"]
    /\ UNCHANGED <<pacerVars, wFs, wFr, buffer, timer, sleep, wTime, wFatal,
                   now, toWorker, toMain, mainVars>>

\* mutant of DropEnvelopes: Close is posted on two paths
DropEnvelopes_Twice == <<Envelope("close", Null), Envelope("close", Null)>>

\* Drop for EngineWorker: the envelopes it posts
DropEnvelopes == <<Envelope("close", Null)>>

\* the EngineWorker is dropped (its owner returns, or drops it early, a
\* pending next() future going first): Drop::drop runs, then the fields go
WorkerDrop ==
    /\ wPc \in {"idle", "timer_wait"}
    /\ ~wFatal
    /\ wPc' = "ended"
    /\ toMain' = toMain \o DropEnvelopes
    /\ wHandle' = FALSE
    /\ wCanvas' = FALSE
    /\ queue' = <<>> /\ buffer' = <<>>
    /\ timer' = NoTimer /\ sleep' = NoSleep
    /\ hist' = [hist EXCEPT !.closes[hist.session] = @ + Len(DropEnvelopes),
                            !.ended[hist.session] = "dropped"]
    /\ UNCHANGED <<pacerVars, wFs, wFr, wTime, wFatal, now, toWorker, mainVars>>

\* EngineWorker::canvas, `unwrap_throw` on the Option in the cell
CanvasThrows(slot) == ~slot

\* EngineWorker::canvas, the cell afterwards: `as_ref()` borrows, `clone()`
\* copies the handle, and the Option stays as it was
CanvasSlotAfter(slot) == slot

\* EngineWorker::canvas
WorkerCanvas ==
    /\ wPc = "idle"
    /\ ~wFatal
    /\ hist.ops < MaxOps
    /\ wFatal' = CanvasThrows(wCanvas)
    /\ wCanvas' = CanvasSlotAfter(wCanvas)
    /\ hist' = [hist EXCEPT !.ops = @ + 1, !.canvasCalls = @ + 1]
    /\ UNCHANGED <<pacerVars, wPc, wHandle, wFs, wFr, queue, buffer, timer, sleep,
                   wTime, now, toWorker, toMain, mainVars>>

\* EngineWorker::post_message
WorkerPostMessage(a) ==
    /\ wPc = "idle"
    /\ ~wFatal
    /\ hist.ops < MaxOps
    /\ toMain' = Append(toMain, Envelope(Null, FromSerde(a)))
    /\ hist' = [hist EXCEPT !.ops = @ + 1, !.posted = Append(@, a)]
    /\ UNCHANGED <<pacerVars, workerVars, now, toWorker, mainVars>>

\* EngineWorker::next, `self.timer.next().await` up to the TimeoutFuture; with
\* no time left the timer returns without yielding
WorkerNextCall ==
    /\ wPc = "idle"
    /\ ~wFatal
    /\ IF TimerSuspends(timer, now)
       THEN /\ sleep' = [tt |-> now, wake |-> TimeoutDue(now, TimerDelay(timer, now))]
            /\ wPc' = "timer_wait"
            /\ UNCHANGED timer
       ELSE /\ timer' = TimerStamp(timer, now, now)
            /\ wPc' = "clear"
            /\ UNCHANGED sleep
    /\ UNCHANGED <<pacerVars, wHandle, wFs, wFr, wCanvas, queue, buffer, wTime, wFatal,
                   now, toWorker, toMain, mainVars, hist>>

\* the TimeoutFuture completes: Timer::next stores `tt` and returns
WorkerTimerFire ==
    /\ wPc = "timer_wait"
    /\ ~wFatal
    /\ now >= sleep.wake
    /\ timer' = TimerStamp(timer, sleep.tt, now)
    /\ sleep' = NoSleep
    /\ wPc' = "clear"
    /\ UNCHANGED <<pacerVars, wHandle, wFs, wFr, wCanvas, queue, buffer, wTime, wFatal,
                   now, toWorker, toMain, mainVars, hist>>

\* mutant of WorkerClear: the working buffer is not cleared
WorkerClear_Skipped ==
    /\ wPc = "clear"
    /\ wPc' = "append"
    /\ UNCHANGED <<pacerVars, wHandle, wFs, wFr, wCanvas, queue, buffer, timer, sleep,
                   wTime, wFatal, now, toWorker, toMain, mainVars, hist>>

\* EngineWorker::next, `self.buffer.clear()`
WorkerClear ==
    /\ wPc = "clear"
    /\ buffer' = <<>>
    /\ wPc' = "append"
    /\ UNCHANGED <<pacerVars, wHandle, wFs, wFr, wCanvas, queue, timer, sleep, wTime, wFatal,
                   now, toWorker, toMain, mainVars, hist>>

\* Vec::append(&mut self, other): the pair <<self, other>> afterwards
VecAppend(self, other) == <<self \o other, <<>> >>

\* EngineWorker::next, `self.buffer.append(&mut self.queue.borrow_mut())` and
\* the return of &self.buffer
WorkerAppend ==
    /\ wPc = "append"
    /\ buffer' = VecAppend(buffer, queue)[1]
    /\ queue' = VecAppend(buffer, queue)[2]
    /\ wPc' = "idle"
    /\ hist' = [hist EXCEPT !.returned = @ \o buffer',
                            !.lastFresh = hist.sincePrev,
                            !.sincePrev = 0,
                            !.nexts = @ + 1]
    /\ UNCHANGED <<pacerVars, wHandle, wFs, wFr, wCanvas, timer, sleep, wTime, wFatal,
                   now, toWorker, toMain, mainVars>>

\* mutant of WorkerOnThrows: a payload that fails to deserialize is skipped
WorkerOnThrows_Skips(e) == FALSE

\* the listener closure of EngineWorker::new, whether it throws
WorkerOnThrows(e) == e.k # Null /\ ~IntoSerde(e.k).ok

\* mutant of WorkerListener: the listener pushes onto the working buffer
WorkerListener_PushesToBuffer ==
    /\ toWorker # <<>>
    /\ wHandle
    /\ ~wFatal
    /\ WorkerYielded
    /\ LET e == Head(toWorker) IN
        /\ toWorker' = Tail(toWorker)
        /\ wCanvas' = IF e.m # Null THEN TRUE ELSE wCanvas
        /\ wFs' = IF e.m # Null THEN FALSE ELSE wFs
        /\ wFr' = IF e.m # Null /\ wFs THEN "sent" ELSE wFr
        /\ wFatal' = WorkerOnThrows(e)
        /\ buffer' = IF e.k # Null /\ ~WorkerOnThrows(e)
                     THEN Append(buffer, IntoSerde(e.k).val) ELSE buffer
        /\ hist' = [hist EXCEPT
                      !.surfSeen = @ + (IF e.m # Null THEN 1 ELSE 0),
                      !.delivered = IF e.k # Null /\ ~WorkerOnThrows(e)
                                    THEN Append(@, IntoSerde(e.k).val) ELSE @,
                      !.sincePrev = @ + (IF e.k # Null /\ ~WorkerOnThrows(e) THEN 1 ELSE 0)]
    /\ UNCHANGED <<pacerVars, wPc, wHandle, queue, timer, sleep, wTime, now, toMain, mainVars>>

\* the listener closure of EngineWorker::new, run on the next envelope; the
\* event loop runs it only while the task is not running
WorkerListener ==
    /\ toWorker # <<>>
    /\ wHandle
    /\ ~wFatal
    /\ WorkerYielded
    /\ LET e == Head(toWorker) IN
        /\ toWorker' = Tail(toWorker)
        /\ wCanvas' = IF e.m # Null THEN TRUE ELSE wCanvas
        /\ wFs' = IF e.m # Null THEN FALSE ELSE wFs
        /\ wFr' = IF e.m # Null /\ wFs THEN "sent" ELSE wFr
        /\ wFatal' = WorkerOnThrows(e)
        /\ queue' = IF e.k # Null /\ ~WorkerOnThrows(e)
                    THEN Append(queue, IntoSerde(e.k).val) ELSE queue
        /\ hist' = [hist EXCEPT
                      !.surfSeen = @ + (IF e.m # Null THEN 1 ELSE 0),
                      !.delivered = IF e.k # Null /\ ~WorkerOnThrows(e)
                                    THEN Append(@, IntoSerde(e.k).val) ELSE @,
                      !.sincePrev = @ + (IF e.k # Null /\ ~WorkerOnThrows(e) THEN 1 ELSE 0)]
    /\ UNCHANGED <<pacerVars, wPc, wHandle, buffer, timer, sleep, wTime, now, toMain, mainVars>>

\* a message event dispatched in the worker scope with no listener installed
WorkerNoListener ==
    /\ toWorker # <<>>
    /\ ~wHandle
    /\ ~wFatal
    /\ toWorker' = Tail(toWorker)
    /\ UNCHANGED <<pacerVars, workerVars, now, toMain, mainVars, hist>>

(* -------------------------------- clock -------------------------------- *)
\* performance.now() advances. Only Timer reads the clock, and only its
\* differences, so the clock is followed from the moment a Timer exists and
\* while the worker's task is between two statements that read it.
Tick ==
    /\ now < MaxNow
    /\ wPc \in {"idle", "timer_wait"}
    /\ now' = now + 1
    /\ UNCHANGED <<pacerVars, toWorker, toMain, mainVars, workerVars, hist>>

(* ---------------------------- specification ---------------------------- *)
Init ==
    /\ now = 0
    /\ toWorker = <<>> /\ toMain = <<>>
    /\ mPc = "init" /\ mHandle = FALSE
    /\ mFs = FALSE /\ mFr = "pending"
    /\ mShutdownFs = FALSE /\ mShutdownFr = "pending"
    /\ mCanvas = TRUE
    /\ mKrAlive = FALSE /\ mStream = <<>> /\ mFatal = FALSE
    /\ wPc = "start" /\ wHandle = FALSE
    /\ wFs = FALSE /\ wFr = "pending" /\ wCanvas = FALSE
    /\ queue = <<>> /\ buffer = <<>>
    /\ timer = NoTimer /\ sleep = NoSleep
    /\ wTime = 0 /\ wFatal = FALSE
    /\ tPc = "none" /\ tRate = 0 /\ obs = InitObs
    /\ fPc = "none" /\ fBuffer = <<>> /\ fStream = <<>> /\ fObs = InitFrameObs
    /\ hist = InitHist

Next ==
    \/ MainNewStart
    \/ MainNewFinish
    \/ \E val \in Values : MainSendEvent(val)
    \/ MainJoinCall
    \/ MainJoinReturn
    \/ MainDropStream
    \/ MainListener
    \/ MainNoListener
    \/ \E time \in EngineRates : WorkerNewStart(time)
    \/ WorkerNewFinish
    \/ WorkerAbandonNew
    \/ WorkerDrop
    \/ WorkerCanvas
    \/ \E a \in Values : WorkerPostMessage(a)
    \/ WorkerNextCall
    \/ WorkerTimerFire
    \/ WorkerClear
    \/ WorkerAppend
    \/ WorkerListener
    \/ WorkerNoListener
    \/ Tick

Spec == Init /\ [][Next]_vars

\* Timer::new alone, at every rate up to MaxRate
NextTimerNew == \E rate \in 1..MaxRate : TimerCreate(rate)

SpecTimerNew == Init /\ [][NextTimerNew]_vars

\* a Timer alone, constructed at one of PacerRates and driven by its owner
NextTimer ==
    \/ \E rate \in PacerRates : TimerCreate(rate)
    \/ TimerCall
    \/ TimerWake
    \/ TimerTick

SpecTimer == Init /\ [][NextTimer]_vars

\* a FrameTimer alone, constructed at one of PacerRates over a stream
NextFrameTimer ==
    \/ \E rate \in PacerRates : FrameTimerNew(rate)
    \/ \E item \in FrameItems \cup {Null} : StreamYield(item)
    \/ FrameNextCall
    \/ FramePoll
    \/ FrameWakeTimer
    \/ FrameWakeStream
    \/ FrameTick

SpecFrameTimer == Init /\ [][NextFrameTimer]_vars

\* the transport delivers every envelope and each event loop runs the task
\* or callback that is ready; the owners' calls are under no obligation
FairSpec ==
    /\ Init /\ [][Next]_vars
    /\ WF_vars(MainListener) /\ WF_vars(MainNoListener)
    /\ WF_vars(WorkerListener) /\ WF_vars(WorkerNoListener)
    /\ WF_vars(MainNewFinish) /\ WF_vars(MainJoinReturn)
    /\ WF_vars(WorkerNewFinish) /\ WF_vars(WorkerClear) /\ WF_vars(WorkerAppend)

(* ================================ claims =============================== *)

\* C1: the controller posts the transfer envelope, and EngineMain::new
\* returns, only in a step taken after its listener has received Ready; with
\* no Ready received neither ever happens.
C1_TransferAfterReady ==
    [][ (hist'.transfers # hist.transfers \/ (mPc = "await_ready" /\ mPc' # mPc))
          => hist.readySeen >= 1 ]_vars

C1_Witness == mPc = "running" /\ hist.transfers = 1 /\ hist.readySeen = 1

\* C2: the surface is a valid handle on at most one side: the controller
\* holds it exactly until it posts the transfer envelope, which it does once,
\* and the worker holds it only once its listener has stored it.
C2_SurfaceSingleOwner ==
    /\ ~(mCanvas /\ wCanvas)
    /\ hist.transfers <= 1
    /\ (mCanvas <=> hist.transfers = 0)
    /\ (mPc \in {"running", "joining", "joined"} => hist.transfers = 1 /\ ~mCanvas)
    /\ (wCanvas => hist.surfSeen >= 1)

C2_Witness == wCanvas /\ ~mCanvas /\ hist.transfers = 1 /\ wPc = "idle"

\* C3: once the worker side has terminated (here: its session or the future
\* of EngineWorker::new was dropped) a pending join() returns.
C3_JoinReturnsAfterTermination ==
    (wPc = "ended" /\ mPc = "joining") ~> (mPc = "joined")

\* C4: no worker session posts more than one Close envelope.
C4_AtMostOneClose ==
    \A n \in 1..hist.session : hist.closes[n] <= 1

C4_Witness ==
    hist.session = 2 /\ hist.closes[1] = 1 /\ hist.ended[1] = "dropped"

\* C5: the slices returned by next(), one after the other, followed by what
\* the queue still holds, are the delivered events in delivery order; each
\* slice holds exactly the events delivered since the previous drain (none
\* gives the empty slice).
C5_EachEventReturnedOnceInOrder ==
    /\ (wHandle => hist.returned \o queue = hist.delivered)
    /\ (wPc \in {"idle", "timer_wait", "clear"} /\ hist.nexts > 0
          => Len(buffer) = hist.lastFresh)

C5_Witness ==
    /\ hist.nexts >= 2 /\ wPc = "idle"
    /\ hist.returned = <<"a", "b">> /\ buffer = <<>> /\ hist.lastFresh = 0

\* C6: between the clear and the append of next() no event is pushed; the
\* append leaves the shared queue empty; a push touches neither the working
\* buffer nor what was returned, so it is seen by the following drain only.
C6_DrainAtomic ==
    [][ /\ (wPc \in {"clear", "append"} => hist'.delivered = hist.delivered)
        /\ (wPc = "append" /\ wPc' = "idle" => queue' = <<>> /\ buffer' = buffer \o queue)
        /\ (Len(hist'.delivered) = Len(hist.delivered) + 1
              => /\ buffer' = buffer /\ hist'.returned = hist.returned
                 /\ queue' = Append(queue, hist'.delivered[Len(hist'.delivered)])) ]_vars

C6_Witness ==
    /\ wPc = "idle" /\ hist.nexts >= 2
    /\ hist.lastFresh >= 1 /\ Len(hist.returned) > Len(buffer) /\ queue = <<>>

\* C7: with every pause between a return of Timer::next and the next call
\* shorter than the period, two successive returns are at least period - 1
\* milliseconds apart.
C7_IntervalAtLeastPeriodMinusOne ==
    (tPc = "idle" /\ obs.returns >= 2 /\ obs.maxWork < timer.frame_rate * TicksPerMs)
        => obs.gap >= (timer.frame_rate - 1) * TicksPerMs

\* C8: Timer::new(rate) computes the period floor(1000/rate + 1/2), fails
\* exactly when that is 0, which is exactly when rate > 2000, and a Timer that
\* was constructed has a positive period.
C8_PeriodRoundsHalfUp ==
    tPc # "none" =>
        /\ 2 * tRate * timer.frame_rate <= 2000 + tRate
        /\ 2000 + tRate < 2 * tRate * (timer.frame_rate + 1)
        /\ (tPc = "failed" <=> timer.frame_rate = 0)
        /\ (tPc = "failed" <=> tRate > 2000)
        /\ (tPc = "idle" => timer.frame_rate > 0)
        /\ (tRate = 60 => timer.frame_rate = 17)
        /\ (tRate = 1000 => timer.frame_rate = 1)
        /\ (tRate = 2000 => timer.frame_rate = 1)

C8_Witness == tPc = "idle" /\ tRate = 2000 /\ timer.frame_rate = 1

\* C9: a listener that receives a control signal whose one-shot is already
\* fulfilled puts its context into the fatal state.
C9_DuplicateSignalIsFatal ==
    /\ (hist.readySeen >= 2 \/ hist.closeSeen >= 2 => mFatal)
    /\ (hist.surfSeen >= 2 => wFatal)

\* C10: a send_event made after the listener has received Close posts its
\* envelope and changes nothing else of the controller, its fatal flag
\* included.
C10_SendAfterCloseIsHarmless ==
    [][ hist'.sentAfterClose # hist.sentAfterClose
          => /\ ~mFatal'
             /\ Len(toWorker') = Len(toWorker) + 1
             /\ UNCHANGED <<mPc, mHandle, mFs, mFr, mShutdownFs, mShutdownFr,
                            mCanvas, mKrAlive, mStream>> ]_vars

C10_Witness == hist.sentAfterClose >= 1 /\ mShutdownFr = "sent" /\ mPc = "running"

\* C11: EngineWorker::new returns only once the listener has stored the
\* surface, so whenever an EngineWorker exists its canvas cell is filled; a
\* canvas() call finds the cell filled, leaves it filled, does not throw and
\* posts nothing.
C11_SurfaceHeldWhileSessionExists ==
    [][ /\ (wPc' \in {"idle", "timer_wait", "clear", "append"}
              => wCanvas' /\ hist'.surfSeen >= 1)
        /\ (wPc = "await_surface" /\ wPc' = "idle" => wCanvas /\ wFr = "sent")
        /\ (hist'.canvasCalls # hist.canvasCalls
              => /\ wCanvas /\ wCanvas' /\ ~wFatal'
                 /\ toMain' = toMain /\ toWorker' = toWorker) ]_vars

C11_Witness == hist.canvasCalls >= 1 /\ wPc = "idle" /\ wCanvas /\ ~wFatal

\* C12: EngineMain::new returns in the step that posts the transfer envelope:
\* at its return the envelope is still in flight and the worker has received
\* no surface, and nothing of the worker has changed. A state with new()
\* returned, a send_event made and the surface not yet received is reachable
\* (C12_Witness).
C12_NewReturnsWithTransferInFlight ==
    [][ (mPc = "await_ready" /\ mPc' = "running")
          => /\ hist'.transfers = hist.transfers + 1
             /\ toWorker' = Append(toWorker, Envelope("canvas", Null))
             /\ hist'.surfSeen = 0 /\ ~wCanvas' /\ wFr' = "pending"
             /\ UNCHANGED workerVars ]_vars

C12_Witness ==
    /\ mPc = "running" /\ hist.transfers = 1
    /\ hist.surfSeen = 0 /\ ~wCanvas /\ wPc = "await_surface"
    /\ Len(toWorker) = 2 /\ toWorker[1].m = "canvas" /\ toWorker[2].k = FromSerde("a")

\* C13: a call of EngineWorker::new leaves the listener installed and exactly
\* one envelope posted, Ready with an empty payload slot; the session posts no
\* further Ready, and the worker posts nothing else while its surface one-shot
\* is unfulfilled.
C13_ReadyOnceThenSilent ==
    [][ /\ (hist'.session # hist.session
              => /\ wHandle'
                 /\ toMain' = Append(toMain, Envelope("ready", Null))
                 /\ hist'.readies = Append(hist.readies, 1))
        /\ (hist'.session = hist.session => hist'.readies = hist.readies)
        /\ (hist'.session = hist.session /\ wFr = "pending"
              => \/ toMain' = toMain
                 \/ toMain # <<>> /\ toMain' = Tail(toMain)) ]_vars

C13_Witness ==
    /\ wPc = "await_surface" /\ wHandle /\ wFr = "sent"
    /\ hist.session = 2 /\ hist.readies = <<1, 1>> /\ toMain = <<>>

\* C14: every envelope on the transport, in either direction, has a control
\* slot or a payload slot that is not null.
C14_EnvelopeNeverEmpty ==
    /\ \A i \in 1..Len(toWorker) : toWorker[i].m # Null \/ toWorker[i].k # Null
    /\ \A i \in 1..Len(toMain) : toMain[i].m # Null \/ toMain[i].k # Null

\* C15: while the controller's listener and the stream's receiver exist (and
\* the listener has not thrown), the stream holds payloads in the order
\* post_message sent them, none twice and none skipped, and once every
\* envelope has been dispatched it holds all of them.
C15_PostedPayloadsReachStreamInOrder ==
    (mHandle /\ mKrAlive /\ ~mFatal)
        => /\ Len(mStream) <= Len(hist.posted)
           /\ \A i \in 1..Len(mStream) : mStream[i] = hist.posted[i]
           /\ (toMain = <<>> => mStream = hist.posted)

\* C16: a call of Timer::next made with elapsed = now - last below the period
\* suspends on a timeout of floor(period - elapsed) whole milliseconds and
\* does not return before it is due; made with elapsed at or above the
\* period it returns in the same step, without suspending.
C16_SuspendsForRemainder ==
    [][ /\ (obs'.calls # obs.calls =>
              LET elapsed == now - timer.last
                  period  == timer.frame_rate * TicksPerMs
              IN  IF elapsed < period
                  THEN /\ tPc' = "sleeping" /\ obs'.returns = obs.returns
                       /\ \E d \in 0..timer.frame_rate :
                            /\ d * TicksPerMs <= period - elapsed
                            /\ period - elapsed < (d + 1) * TicksPerMs
                            /\ sleep'.wake = now + d * TicksPerMs
                  ELSE /\ tPc' = "idle" /\ obs'.returns = obs.returns + 1
                       /\ sleep' = sleep /\ now' = now)
        /\ (tPc = "sleeping" /\ tPc' = "idle" => now >= sleep.wake) ]_vars

C16_Witness ==
    /\ tPc = "sleeping" /\ obs.calls >= 2
    /\ obs.elapsed % TicksPerMs # 0
    /\ obs.elapsed < timer.frame_rate * TicksPerMs
    /\ sleep.wake < timer.last + timer.frame_rate * TicksPerMs

\* C17: every Timer::next call that has returned has assigned self.last once,
\* and after a return self.last holds the clock value read when the call
\* returned, after its suspension.
C17_StampIsClockAfterSuspension ==
    (tPc = "idle" /\ obs.returns >= 1)
        => /\ obs.stamps = obs.returns
           /\ timer.last = obs.lastRet

\* C18: when a listener is run on an envelope whose payload fails to
\* deserialize, its context becomes fatal and nothing is appended: the
\* worker's queue and buffer (the controller's stream) stay as they were.
C18_UndecodablePayloadIsFatal ==
    [][ /\ ( (toWorker # <<>> /\ toWorker' = Tail(toWorker) /\ wHandle
               /\ Head(toWorker).k # Null /\ ~IntoSerde(Head(toWorker).k).ok)
              => (/\ wFatal'
                  /\ queue' = queue /\ buffer' = buffer
                  /\ hist'.delivered = hist.delivered) )
        /\ ( (toMain # <<>> /\ toMain' = Tail(toMain) /\ mHandle
               /\ Head(toMain).k # Null /\ ~IntoSerde(Head(toMain).k).ok)
              => (mFatal' /\ mStream' = mStream) ) ]_vars

C18_Witness ==
    /\ wFatal /\ wPc = "idle" /\ wHandle
    /\ queue = <<"a">> /\ hist.delivered = <<"a">> /\ toWorker = <<>>

\* C19: from the return of a next() to the clear of the following one, a run
\* of the worker's listener leaves the working buffer, the timer and the
\* task's position as they were; it changes the shared queue only, by at most
\* one event appended at its end.
C19_DeliveryLeavesBufferAlone ==
    [][ (/\ wPc \in {"idle", "timer_wait"} /\ hist.nexts >= 1
         /\ wHandle /\ toWorker # <<>> /\ toWorker' = Tail(toWorker))
          => (/\ buffer' = buffer
              /\ hist'.returned = hist.returned
              /\ UNCHANGED <<wPc, timer, sleep>>
              /\ \/ queue' = queue /\ hist'.delivered = hist.delivered
                 \/ \E v \in Decodable : /\ queue' = Append(queue, v)
                                         /\ hist'.delivered = Append(hist.delivered, v)) ]_vars

C19_Witness ==
    /\ wPc = "timer_wait" /\ hist.nexts = 1
    /\ buffer = <<"a">> /\ queue = <<"b">> /\ hist.returned = <<"a">>

\* C20: a session posts Close only after it has posted Ready and a surface
\* has been received; so the controller's listener sees no Close before a
\* Ready, and the close one-shot is unfulfilled, with no Close in flight,
\* while EngineMain::new has not returned.
C20_CloseOnlyAfterHandshake ==
    /\ \A n \in 1..hist.session :
         hist.closes[n] >= 1 => hist.readies[n] >= 1 /\ hist.surfSeen >= 1
    /\ (hist.closeSeen >= 1 => hist.readySeen >= 1)
    /\ (mShutdownFr = "sent" => mFr = "sent")
    /\ (mPc \in {"init", "await_ready"}
          => /\ mShutdownFr = "pending" /\ hist.closeSeen = 0
             /\ \A i \in 1..Len(toMain) : toMain[i].m # "close")

C20_Witness ==
    /\ mShutdownFr = "sent" /\ hist.closeSeen = 1 /\ hist.readySeen = 1
    /\ mPc = "running" /\ wPc = "ended"

C22_FrameBufferOnlyGrows ==
    [][ LET IsPrefix(s, t) == Len(s) <= Len(t) /\ \A i \in 1..Len(s) : s[i] = t[i]
        IN  /\ (fPc # "none" => IsPrefix(fBuffer, fBuffer'))
            /\ (fObs'.returns # fObs.returns
                  => /\ fObs'.slice = fObs'.taken
                     /\ fObs'.slice = fBuffer'
                     /\ IsPrefix(fObs.slice, fObs'.slice))
            /\ (fObs'.abandoned # fObs.abandoned
                  => timer'.last = timer.last /\ timer' = timer) ]_vars

C22_Witness ==
    /\ fPc = "idle" /\ fObs.returns >= 2 /\ fObs.abandoned >= 1
    /\ fObs.prevSlice = <<"a">> /\ fObs.slice = <<"a", "b">>
    /\ timer.last > 0

====
